---- MODULE Spec2Model ----
(***************************************************************************)
(* A model of calc.py: a monadic parser (Parser, ret, bind, |), the        *)
(* primitive parsers pick and pop, the generator driven do-notation        *)
(* (reduce, do), the derived combinators (sat, char, string, many, many1,  *)
(* space, token, symb) and the arithmetic grammar (expr, term, factor,     *)
(* digits, addop, mulop, operator) with the read-eval-print loop main.     *)
(*                                                                         *)
(* A context (the str being parsed) is a sequence of one-character         *)
(* strings.  Python values are tagged tuples, so that two values of        *)
(* different types are unequal instead of incomparable.  A parser is a     *)
(* record describing how the Parser object was built; Run is               *)
(* Parser.parse.  A raised exception is a result with ok = FALSE that      *)
(* carries the exception's class and message.                              *)
(***************************************************************************)
EXTENDS Integers, Sequences, FiniteSets, TLC

\* The value of a set of one element.  Only({e(v) : v \in {d}}) is e with d
\* named v, as LET v == d IN e(v), and d is evaluated once however often e
\* uses v.
Only(S) == CHOOSE v \in S : TRUE

(***************************************************************************)
(* Python values.                                                          *)
(***************************************************************************)
None == <<"none">>
Chr(c) == <<"chr", c>>
Num(n, d) == <<"num", n, d>>
List(xs) == <<"list", xs>>
Str(s) == <<"str", s>>
Fn(name) == <<"fn", name>>
\* The class object ParserError, which many uses as a value.
ParserErrorClass == <<"class", "ParserError">>
\* The object Ellipsis, which eval("...") gives.
Ellipsis == <<"ellipsis">>

IsChr(v) == v[1] = "chr"
IsNum(v) == v[1] = "num"
IsList(v) == v[1] = "list"
IsFn(v) == v[1] = "fn"

(***************************************************************************)
(* Results of Parser.parse: a pair (value, context), or a raised           *)
(* exception.  log is a history of the run so far: in order, every         *)
(* continuation that was called (bind's f), every resumption of a          *)
(* generator and every second branch of an alternation that was run.       *)
(***************************************************************************)
Ok(v, c, l) == [ok |-> TRUE, val |-> v, rest |-> c, err |-> "", msg |-> <<>>, log |-> l]
Raise(e, m, l) == [ok |-> FALSE, val |-> None, rest |-> <<>>, err |-> e, msg |-> m, log |-> l]
\* What the caller of parse can observe: the pair, or the exception.
Outcome(r) == [ok |-> r.ok, val |-> r.val, rest |-> r.rest, err |-> r.err, msg |-> r.msg]

(***************************************************************************)
(* Parser objects.                                                         *)
(***************************************************************************)
PNone == [t |-> "none"]
Ret(v) == [t |-> "ret", v |-> v]
Pick == [t |-> "pick"]
Pop == [t |-> "pop"]
Or(self, other) == [t |-> "or", self |-> self, other |-> other]
Bind(self, f) == [t |-> "bind", self |-> self, f |-> f]
Do(f) == [t |-> "do", f |-> f]
Named(n) == [t |-> "named", n |-> n]
\* A parser whose construction raised: parsing with it raises.  reduce and
\* the functions given to bind run only as f(a).parse(context), so that an
\* exception of f(a) is an exception of that parse.
Raising(e, m) == [t |-> "raising", err |-> e, msg |-> m]

(***************************************************************************)
(* The predicates handed to sat: lambda x: x == ch (char), and             *)
(* lambda x: x in "..." (space, digits).                                   *)
(***************************************************************************)
PredEq(v) == [k |-> "eq", v |-> v]
PredIn(s) == [k |-> "in", s |-> s]
Holds(p, x) == IF p.k = "eq" THEN x = p.v ELSE IsChr(x) /\ x[2] \in p.s

SpaceChars == {" ", "\t", "\n", "\r"}
DigitChars == {"1", "2", "3", "4", "5", "6", "7", "8", "9", "0", "."}

(***************************************************************************)
(* Numbers.  eval and the operators compute on exact rationals n/d in      *)
(* lowest terms (Python's int and float are not told apart, and float      *)
(* rounding is not modelled).                                              *)
(***************************************************************************)
RECURSIVE Gcd(_, _)
Gcd(a, b) == IF b = 0 THEN a ELSE Gcd(b, a % b)
Abs(a) == IF a < 0 THEN -a ELSE a
Norm(n, d) ==
    Only({ IF d < 0 THEN Num((0 - n) \div g, (0 - d) \div g) ELSE Num(n \div g, d \div g)
           : g \in {Gcd(Abs(n), Abs(d))} })

\* The functions the operator parsers return, applied: op(n1, n2), as the
\* fraction's numerator and denominator before it is reduced.
Numerator(f, a, b) ==
    CASE f = "add" -> a[2] * b[3] + b[2] * a[3]
      [] f = "sub" -> a[2] * b[3] - b[2] * a[3]
      [] f = "mul" -> a[2] * b[2]
      [] f = "div" -> a[2] * b[3]
Denominator(f, a, b) == IF f = "div" THEN a[3] * b[2] ELSE a[3] * b[3]

\* op(n1, n2); a division by zero raises ZeroDivisionError.
CallOp(op, a, b) ==
    IF ~(IsFn(op) /\ IsNum(a) /\ IsNum(b))
    THEN [k |-> "raise", err |-> "TypeError", msg |-> <<"op">>]
    ELSE IF op[2] = "div" /\ b[2] = 0
    THEN [k |-> "raise", err |-> "ZeroDivisionError", msg |-> <<"division by zero">>]
    ELSE [k |-> "value", v |-> Norm(Numerator(op[2], a, b), Denominator(op[2], a, b))]

(***************************************************************************)
(* eval("".join(x)) for a list x of characters in "1234567890.", by        *)
(* Python's literal grammar: an integer literal is a nonzero digit and     *)
(* digits, or zeros only; a float literal has one point and at least one   *)
(* digit; "..." is the object Ellipsis.  Anything else is a SyntaxError.   *)
(***************************************************************************)
DigitValue(c) ==
    CASE c = "0" -> 0 [] c = "1" -> 1 [] c = "2" -> 2 [] c = "3" -> 3 [] c = "4" -> 4
      [] c = "5" -> 5 [] c = "6" -> 6 [] c = "7" -> 7 [] c = "8" -> 8 [] c = "9" -> 9

RECURSIVE Pow10(_)
Pow10(k) == IF k = 0 THEN 1 ELSE 10 * Pow10(k - 1)

\* The digits of text read as one decimal integer, its points skipped.
RECURSIVE DecimalOf(_, _)
DecimalOf(text, acc) ==
    IF text = <<>> THEN acc
    ELSE IF Head(text) = "." THEN DecimalOf(Tail(text), acc)
    ELSE DecimalOf(Tail(text), 10 * acc + DigitValue(Head(text)))

\* Where the points of text are.
Points(text) == {i \in 1..Len(text) : text[i] = "."}
\* An integer literal with a leading zero that is not zero.
LeadingZero(text) == Len(text) > 1 /\ text[1] = "0" /\ \E i \in 1..Len(text) : text[i] # "0"

EvalLiteral(text) ==
    Only({ IF text = <<".", ".", ".">> THEN [k |-> "value", v |-> Ellipsis]
           ELSE IF Cardinality(points) >= 2 \/ text = <<".">> \/ text = <<>>
           THEN [k |-> "raise", err |-> "SyntaxError", msg |-> <<"invalid syntax">>]
           ELSE IF points = {}
           THEN IF LeadingZero(text)
                THEN [k |-> "raise", err |-> "SyntaxError", msg |-> <<"leading zeros">>]
                ELSE [k |-> "value", v |-> Num(DecimalOf(text, 0), 1)]
           ELSE [k |-> "value",
                 v |-> Norm(DecimalOf(text, 0), Pow10(Len(text) - Only(points)))]
           : points \in {Points(text)} })

\* "".join(x): the characters of a list of one-character strings.
Join(x) == [i \in 1..Len(x[2]) |-> x[2][i][2]]

(***************************************************************************)
(* Generator functions.  A generator function is named by gf, with the     *)
(* variables it closes over in cl; calling it gives a generator object     *)
(* that adds pc, the yield it is suspended at (0: not started), and loc,   *)
(* its local variables.                                                    *)
(***************************************************************************)
GenFn(gf, cl) == [gf |-> gf, cl |-> cl]
NewGenerator(f) == [gf |-> f.gf, cl |-> f.cl, pc |-> 0, loc |-> <<>>]

sat(p) == Do(GenFn("sat", <<p>>))
char(ch) == sat(PredEq(ch))
string(s) == Do(GenFn("string", <<s>>))
many(p) == Do(GenFn("many", <<p>>))
many1(p) == Do(GenFn("many1", <<p>>))
space == Named("space")
token(p) == Do(GenFn("token", <<p>>))
symb(s) == token(string(s))
operator(p_op, p_n1, p_n2) == Do(GenFn("operator", <<p_op, p_n1, p_n2>>))
expr == Named("expr")
term == Named("term")
factor == Named("factor")
digits == Named("digits")
parse_parenthesis == Do(GenFn("parse_parenthesis", <<>>))
plus == Do(GenFn("opsym", <<"+", "add">>))
minus == Do(GenFn("opsym", <<"-", "sub">>))
times == Do(GenFn("opsym", <<"*", "mul">>))
divide == Do(GenFn("opsym", <<"/", "div">>))
addop(pn1, pn2) == operator(Or(plus, minus), pn1, pn2)
mulop(pn1, pn2) == operator(Or(times, divide), pn1, pn2)

(***************************************************************************)
(* One resumption of a generator object g with the value x sent in         *)
(* (next(g) sends None): the generator runs to its next yield, to its      *)
(* return (StopIteration carrying the returned parser) or to a raise.      *)
(***************************************************************************)
Yield(p, g) == [k |-> "yield", p |-> p, g |-> g]
Return(p) == [k |-> "return", p |-> p]
Throw(e, m) == [k |-> "raise", err |-> e, msg |-> m]

\* sat's parser(): ch = yield pop(); return ret(ch) if p(ch), else raise.
SatBody(g, x) ==
    IF g.pc = 0 THEN Yield(Pop, [g EXCEPT !.pc = 1])
    ELSE IF Holds(g.cl[1], x) THEN Return(Ret(x))
    ELSE Throw("ParserError", <<"unexpected", x>>)

\* string's parser(): for ch in s: yield char(ch); return ret(s).
\* loc is the number of characters of s already yielded.
StringBody(g, x) ==
    LET i == IF g.pc = 0 THEN 0 ELSE g.loc
    IN  IF i < Len(g.cl[1])
        THEN Yield(char(Chr(g.cl[1][i + 1])), [g EXCEPT !.pc = 1, !.loc = i + 1])
        ELSE Return(Ret(Str(g.cl[1])))

\* many's parse_many(): loc is result.
ManyBody(g, x) ==
    LET attempt == Or(g.cl[1], Ret(ParserErrorClass))
    IN  IF g.pc = 0 THEN Yield(attempt, [g EXCEPT !.pc = 1, !.loc = <<>>])
        ELSE IF x = ParserErrorClass THEN Return(Ret(List(g.loc)))
        ELSE Yield(attempt, [g EXCEPT !.loc = Append(g.loc, x)])

\* many1's m(): loc is x.
Many1Body(g, x) ==
    CASE g.pc = 0 -> Yield(g.cl[1], [g EXCEPT !.pc = 1])
      [] g.pc = 1 -> Yield(many(g.cl[1]), [g EXCEPT !.pc = 2, !.loc = x])
      [] g.pc = 2 -> IF IsList(x) THEN Return(Ret(List(<<g.loc>> \o x[2])))
                     ELSE Throw("TypeError", <<"list + non-list">>)

\* token's m(): loc is a.
\* Faulty variant: token without yield space.
TokenBodyNoSpace(g, x) ==
    CASE g.pc = 0 -> Yield(g.cl[1], [g EXCEPT !.pc = 1])
      [] g.pc = 1 -> Return(Ret(x))
TokenBody(g, x) ==
    CASE g.pc = 0 -> Yield(g.cl[1], [g EXCEPT !.pc = 1])
      [] g.pc = 1 -> Yield(space, [g EXCEPT !.pc = 2, !.loc = x])
      [] g.pc = 2 -> Return(Ret(g.loc))

\* operator's result(): cl is <<p_op, p_n1, p_n2>>, loc is <<n1, op>>.
\* Faulty variant: op(n2, n1).
OperatorBodySwapped(g, x) ==
    CASE g.pc = 0 -> Yield(g.cl[2], [g EXCEPT !.pc = 1])
      [] g.pc = 1 -> Yield(g.cl[1], [g EXCEPT !.pc = 2, !.loc = <<x>>])
      [] g.pc = 2 -> Yield(g.cl[3], [g EXCEPT !.pc = 3, !.loc = <<g.loc[1], x>>])
      [] g.pc = 3 -> Only({ IF r.k = "raise" THEN Throw(r.err, r.msg) ELSE Return(Ret(r.v))
                            : r \in {CallOp(g.loc[2], x, g.loc[1])} })
OperatorBody(g, x) ==
    CASE g.pc = 0 -> Yield(g.cl[2], [g EXCEPT !.pc = 1])
      [] g.pc = 1 -> Yield(g.cl[1], [g EXCEPT !.pc = 2, !.loc = <<x>>])
      [] g.pc = 2 -> Yield(g.cl[3], [g EXCEPT !.pc = 3, !.loc = <<g.loc[1], x>>])
      [] g.pc = 3 -> Only({ IF r.k = "raise" THEN Throw(r.err, r.msg) ELSE Return(Ret(r.v))
                            : r \in {CallOp(g.loc[2], g.loc[1], x)} })

\* factor's parse_parenthesis(): loc is n.
ParenthesisBody(g, x) ==
    CASE g.pc = 0 -> Yield(symb(<<"(">>), [g EXCEPT !.pc = 1])
      [] g.pc = 1 -> Yield(expr, [g EXCEPT !.pc = 2])
      [] g.pc = 2 -> Yield(symb(<<")">>), [g EXCEPT !.pc = 3, !.loc = x])
      [] g.pc = 3 -> Return(Ret(g.loc))

\* plus, minus, times, divide: yield symb(c); return ret(the function).
\* cl is <<c, the function's name>>.
OpSymBody(g, x) ==
    IF g.pc = 0 THEN Yield(symb(<<g.cl[1]>>), [g EXCEPT !.pc = 1])
    ELSE Return(Ret(Fn(g.cl[2])))

(***************************************************************************)
(* A do-block of n steps, as a client of do writes it:                     *)
(*     x1 = yield P1; x2 = yield P2(x1); ...; return ret([x1, ..., xn])    *)
(* A step is a fixed parser, or a parser computed from the values bound    *)
(* before it: char(x1) ("first") or char of the last bound value ("last"). *)
(* The returned value is computed from every bound value.                  *)
(***************************************************************************)
StepFixed(p) == [s |-> "fixed", p |-> p]
StepFirst == [s |-> "first"]
StepLast == [s |-> "last"]
StepParser(step, xs) ==
    CASE step.s = "fixed" -> step.p
      [] step.s = "first" -> IF xs = <<>> THEN Pop ELSE char(xs[1])
      [] step.s = "last" -> IF xs = <<>> THEN Pop ELSE char(xs[Len(xs)])

\* The block as a generator function: cl is <<steps>>, loc is <<x1, ..>>.
StepsBody(g, x) ==
    LET xs == IF g.pc = 0 THEN <<>> ELSE Append(g.loc, x)
    IN  IF Len(xs) < Len(g.cl[1])
        THEN Yield(StepParser(g.cl[1][Len(xs) + 1], xs), [g EXCEPT !.pc = @ + 1, !.loc = xs])
        ELSE Return(Ret(List(xs)))

\* generator.send(x), and next(generator) as send(None).
GenSend(g, x) ==
    CASE g.gf = "sat" -> SatBody(g, x)
      [] g.gf = "string" -> StringBody(g, x)
      [] g.gf = "many" -> ManyBody(g, x)
      [] g.gf = "many1" -> Many1Body(g, x)
      [] g.gf = "token" -> TokenBody(g, x)
      [] g.gf = "operator" -> OperatorBody(g, x)
      [] g.gf = "parse_parenthesis" -> ParenthesisBody(g, x)
      [] g.gf = "opsym" -> OpSymBody(g, x)
      [] g.gf = "steps" -> StepsBody(g, x)

(***************************************************************************)
(* do's _Generator: the generator and the value to send on the next        *)
(* __next__ (_Null: none).  The object is mutated in place; every closure  *)
(* that holds it is called at most once, so its state is threaded.         *)
(***************************************************************************)
Null == <<"_Null">>
Wrapper(generator) == [generator |-> generator, x |-> Null]
partial_apply(w, x) == [w EXCEPT !.x = x]

\* _Generator.__next__: the generator's step, with the wrapper afterwards.
WrapperNext(w) ==
    Only({ IF r.k = "yield"
           THEN [k |-> "yield", p |-> r.p, w |-> [generator |-> r.g, x |-> Null]]
           ELSE r
           : r \in {GenSend(w.generator, IF w.x # Null THEN w.x ELSE None)} })

\* The event a resumption leaves in the log.
Resumed(w) == <<"resume", w.generator.gf, w.generator.pc>>

(***************************************************************************)
(* reduce(g): the parser the rest of the generator stands for.             *)
(***************************************************************************)
\* Faulty variant: reduce drops the value of StopIteration.
ReducedDropsValue(m_a) ==
    CASE m_a.k = "return" -> PNone
      [] m_a.k = "raise" -> Raising(m_a.err, m_a.msg)
      [] m_a.k = "yield" -> Bind(m_a.p, [fn |-> "reduce", g |-> m_a.w])
Reduced(m_a) ==
    CASE m_a.k = "return" -> m_a.p
      [] m_a.k = "raise" -> Raising(m_a.err, m_a.msg)
      [] m_a.k = "yield" -> Bind(m_a.p, [fn |-> "reduce", g |-> m_a.w])
reduce(w) == Reduced(WrapperNext(w))

(***************************************************************************)
(* The functions handed to bind.  "reduce" is reduce's lambda; the others  *)
(* are a client's: Parser.ret itself, lambda a: char(a), lambda _: p,      *)
(* lambda a: pop().bind(lambda b: ret([a, b])), a function that raises,    *)
(* and the continuations of a do-block written out as nested binds.        *)
(***************************************************************************)
FnRet == [fn |-> "ret"]
FnChar == [fn |-> "char"]
FnConst(p) == [fn |-> "const", p |-> p]
FnPair == [fn |-> "pair"]
FnRaise == [fn |-> "raise"]
FnNested(steps, xs) == [fn |-> "nested", steps |-> steps, xs |-> xs]

\* P1.bind(x1 => P2(x1).bind(x2 => ... ret([x1, ..., xn]))), from step
\* Len(xs) + 1 on with x1..xk = xs already bound.
NestedBind(steps, xs) ==
    IF Len(xs) < Len(steps)
    THEN Bind(StepParser(steps[Len(xs) + 1], xs), FnNested(steps, xs))
    ELSE Ret(List(xs))

\* f(a)
Apply(f, a) ==
    CASE f.fn = "reduce" -> reduce(partial_apply(f.g, a))
      [] f.fn = "ret" -> Ret(a)
      [] f.fn = "char" -> char(a)
      [] f.fn = "const" -> f.p
      [] f.fn = "pair" -> Bind(Pop, [fn |-> "pair2", a |-> a])
      [] f.fn = "pair2" -> Ret(List(<<f.a, a>>))
      [] f.fn = "raise" -> Raising("ParserError", <<"raised by f">>)
      [] f.fn = "nested" -> NestedBind(f.steps, Append(f.xs, a))

\* The events a call of f leaves in the log: the call, and with reduce's
\* lambda the resumption of its generator.
Called(f) ==
    IF f.fn = "reduce" THEN << <<"call", f.fn>>, Resumed(f.g) >> ELSE << <<"call", f.fn>> >>

(***************************************************************************)
(* Parser.parse(context).  active holds the module level parsers (expr,    *)
(* term, factor, digits, space) that are on the call stack, each with the  *)
(* length of the context it was called on: entering one of them again on   *)
(* the same context would recurse without end, which Python ends with a    *)
(* RecursionError.                                                         *)
(***************************************************************************)
\* pick's parser(context)
PickParse(context, log) ==
    IF Len(context) = 0 THEN Raise("ParserError", <<"unexpected EOF">>, log)
    ELSE Ok(Chr(context[1]), context, log)

\* pop's parser(context)
PopParse(context, log) ==
    IF Len(context) = 0 THEN Raise("ParserError", <<"unexpected EOF">>, log)
    ELSE Ok(Chr(context[1]), Tail(context), log)

\* The exceptions Parser.__or__ catches.
\* Faulty variant: except Exception in place of except ParserError.
CaughtAny(r) == ~r.ok
Caught(r) == ~r.ok /\ r.err = "ParserError"

\* The body of digits after token(many1(one)) returned x.
Evaluated(r, v) ==
    IF v.k = "raise" THEN Raise(v.err, v.msg, r.log) ELSE Ok(v.v, r.rest, r.log)
\* "".join(x) takes an iterable of str.
Joinable(x) == IsList(x) /\ \A i \in 1..Len(x[2]) : IsChr(x[2][i])
DigitsEval(r) ==
    IF ~r.ok THEN r
    ELSE IF Joinable(r.val) THEN Evaluated(r, EvalLiteral(Join(r.val)))
    ELSE Raise("TypeError", <<"sequence item: expected str instance">>, r.log)

\* What the body of a module level parser parses with.
\* Faulty variant: expr without its second alternative.
BodyNoFallback(n) ==
    CASE n = "space" -> many(sat(PredIn(SpaceChars)))
      [] n = "expr" -> addop(term, expr)
      [] n = "term" -> Or(mulop(factor, term), factor)
      [] n = "factor" -> Or(digits, parse_parenthesis)
      [] n = "digits" -> token(many1(sat(PredIn(DigitChars))))
\* Faulty variant: expr written left recursive.
BodyLeftRecursive(n) ==
    CASE n = "space" -> many(sat(PredIn(SpaceChars)))
      [] n = "expr" -> Or(addop(expr, term), term)
      [] n = "term" -> Or(mulop(factor, term), factor)
      [] n = "factor" -> Or(digits, parse_parenthesis)
      [] n = "digits" -> token(many1(sat(PredIn(DigitChars))))
Body(n) ==
    CASE n = "space" -> many(sat(PredIn(SpaceChars)))
      [] n = "expr" -> Or(addop(term, expr), term)
      [] n = "term" -> Or(mulop(factor, term), factor)
      [] n = "factor" -> Or(digits, parse_parenthesis)
      [] n = "digits" -> token(many1(sat(PredIn(DigitChars))))

RECURSIVE Run(_, _, _, _)

\* Parser.__or__'s parse: first is self.parse(context); other.parse(context)
\* is run when it raised ParserError.
\* Faulty variant: __or__ without its except clause.
OrParseFirst(first, other, context, active) == first
OrParse(first, other, context, active) ==
    IF Caught(first) THEN Run(other, context, active, Append(first.log, <<"other">>))
    ELSE first

\* Parser.bind's bound: first is self.parse(context), whose exception
\* leaves bound; otherwise a, context = first and f(a).parse(context).
\* Faulty variant: bound returns the context f(a) was given, not the one it left.
KeepRest(r, c) == IF r.ok THEN [r EXCEPT !.rest = c] ELSE r
BindParseKeepsRest(first, f, context, active) ==
    IF first.ok
    THEN KeepRest(Run(Apply(f, first.val), first.rest, active, first.log \o Called(f)),
                  first.rest)
    ELSE first
\* Faulty variant: bound calls f(None) when self.parse raised.
BindParseOnward(first, f, context, active) ==
    Run(Apply(f, first.val), IF first.ok THEN first.rest ELSE context, active,
        first.log \o Called(f))
BindParse(first, f, context, active) ==
    IF first.ok THEN Run(Apply(f, first.val), first.rest, active, first.log \o Called(f))
    ELSE first

\* A module level parser n, called on context.
NamedParse(n, context, active, log) ==
    IF <<n, Len(context)>> \in active
    THEN Raise("RecursionError", <<"maximum recursion depth exceeded">>, log)
    ELSE IF n = "digits"
    THEN DigitsEval(Run(Body(n), context, active \cup {<<n, Len(context)>>}, log))
    ELSE Run(Body(n), context, active \cup {<<n, Len(context)>>}, log)

\* Parser.parse(context), with the history so far in log.
Run(p, context, active, log) ==
    CASE p.t = "none" -> Ok(None, context, log)
      [] p.t = "ret" -> Ok(p.v, context, log)
      [] p.t = "pick" -> PickParse(context, log)
      [] p.t = "pop" -> PopParse(context, log)
      [] p.t = "or" -> OrParse(Run(p.self, context, active, log), p.other, context, active)
      [] p.t = "bind" -> BindParse(Run(p.self, context, active, log), p.f, context, active)
      [] p.t = "do" -> Run(reduce(Wrapper(NewGenerator(p.f))), context, active,
                           Append(log, Resumed(Wrapper(NewGenerator(p.f)))))
      [] p.t = "named" -> NamedParse(p.n, context, active, log)
      [] p.t = "raising" -> Raise(p.err, p.msg, log)

\* p.parse(context), called from outside any parser.
Parse(p, context) == Run(p, context, {}, <<>>)

(***************************************************************************)
VARIABLES op, parser, context, result, pc, output
vars == <<op, parser, context, result, pc, output>>

NoResult == Ok(None, <<>>, <<>>)

Init ==
    /\ op = "idle"
    /\ parser = PNone
    /\ context = <<>>
    /\ result = NoResult
    /\ pc = "input"
    /\ output = <<>>

(***************************************************************************)
(* Bounds, and the inputs drawn within them.                               *)
(***************************************************************************)
\* The longest context the combinators are run on.
MaxCtx == 3
\* The most steps of a do-block.
MaxSteps == 3
\* The longest line of arbitrary characters main reads.
MaxLine == 3

RECURSIVE StringsUpTo(_, _)
StringsUpTo(alphabet, n) ==
    IF n = 0 THEN {<<>>}
    ELSE LET shorter == StringsUpTo(alphabet, n - 1)
         IN  shorter \cup {Append(s, c) : s \in {t \in shorter : Len(t) = n - 1}, c \in alphabet}

Contexts == StringsUpTo({"a", "1", "."}, MaxCtx)

\* The values a client returns: a character, None, and the class
\* ParserError (any Python object is a value).
Values == {Chr("a"), None, ParserErrorClass}

\* The parsers the combinators are applied to.
Parsers ==
    {PNone, Pick, Pop, char(Chr("a")), string(<<"a", "1">>), digits,
     sat(PredIn(DigitChars)), many(char(Chr("a"))), Or(char(Chr("a")), char(Chr("1"))),
     Bind(Pop, FnRaise), Bind(Pop, FnConst(Ret(ParserErrorClass)))}
       \cup {Ret(v) : v \in Values}

\* The functions bind is given.
Fns == {FnRet, FnChar, FnPair, FnRaise, FnConst(Pop), FnConst(char(Chr("1")))}

\* The do-blocks.
Steps == {StepFixed(Pop), StepFixed(char(Chr("a"))), StepFirst, StepLast}
RECURSIVE StepLists(_)
StepLists(n) ==
    IF n = 0 THEN {<<>>}
    ELSE LET shorter == StepLists(n - 1)
         IN  shorter \cup {Append(s, c) : s \in {t \in shorter : Len(t) = n - 1}, c \in Steps}
DoBlock(steps) == Do(GenFn("steps", <<steps>>))

\* p consumes at least one element whenever it succeeds.
Consuming(p) == \A c \in Contexts : LET r == Parse(p, c) IN r.ok => Len(r.rest) < Len(c)

(***************************************************************************)
(* The combinators, applied.                                               *)
(***************************************************************************)
Experiment(name, p, c) ==
    /\ op' = name
    /\ parser' = p
    /\ context' = c
    /\ result' = Parse(p, c)
    /\ UNCHANGED <<pc, output>>

\* (p1 | p2).parse(c)
ParseOr ==
    /\ op = "idle"
    /\ \E p1 \in Parsers, p2 \in Parsers, c \in Contexts : Experiment("or", Or(p1, p2), c)

\* p.bind(f).parse(c)
ParseBind ==
    /\ op = "idle"
    /\ \E p \in Parsers, f \in Fns, c \in Contexts : Experiment("bind", Bind(p, f), c)

\* A do-block's parser, parsed.
ParseDo ==
    /\ op = "idle"
    /\ \E steps \in StepLists(MaxSteps), c \in Contexts : Experiment("do", DoBlock(steps), c)

\* A do-block's parser parsed, failed after it by an alternation's first
\* branch, and parsed again as the second branch.
ParseDoAgain ==
    /\ op = "idle"
    /\ \E steps \in StepLists(MaxSteps), c \in Contexts :
          Experiment("do again", Or(Bind(DoBlock(steps), FnRaise), DoBlock(steps)), c)

\* many(p).parse(c), for a p that consumes whenever it succeeds.
ConsumingParsers == {p \in Parsers : Consuming(p)}
ParseMany ==
    /\ op = "idle"
    /\ \E p \in ConsumingParsers, c \in Contexts : Experiment("many", many(p), c)

\* The next experiment.
Reset ==
    /\ op # "idle"
    /\ op' = "idle"
    /\ parser' = PNone
    /\ context' = <<>>
    /\ result' = NoResult
    /\ UNCHANGED <<pc, output>>

Next == ParseOr \/ ParseBind \/ ParseDo \/ ParseDoAgain \/ ParseMany \/ Reset
Spec == Init /\ [][Next]_vars

(***************************************************************************)
(* Properties of the combinators.                                          *)
(***************************************************************************)
\* C1: when p1 fails with ParserError on an input, (p1 | p2) has on that
\* input exactly the outcome of p2 on the same input: p2's value and
\* remaining input, or p2's failure, whatever p1 consumed before failing.
OrFallback ==
    (op = "or" /\ Caught(Parse(parser.self, context)))
        => Outcome(result) = Outcome(Parse(parser.other, context))

\* p1 pops an element and then fails; p2 starts at the original input.
OrFallbackWitness ==
    /\ op = "or"
    /\ parser.self = Bind(Pop, FnRaise)
    /\ parser.other = Pop
    /\ Len(context) = MaxCtx
    /\ Caught(Parse(parser.self, context))
    /\ result.ok
    /\ result.val = Chr(context[1])
    /\ result.rest = Tail(context)

\* The list of the values of the consecutive successful runs of p from c
\* on, and the input as it stood before the first failing run.
RECURSIVE ManyReference(_, _, _)
ManyReference(p, c, values) ==
    LET r == Parse(p, c)
    IN  IF r.ok THEN ManyReference(p, r.rest, Append(values, r.val))
        ELSE [ok |-> TRUE, val |-> List(values), rest |-> c, err |-> "", msg |-> <<>>]

\* p fails with the failure signal only.
FailsByParserError(p) == \A c \in Contexts : Parse(p, c).ok \/ Caught(Parse(p, c))

\* C5: for a p that consumes whenever it succeeds (and fails by ParserError
\* only), many(p) succeeds on every input with the list of the values of
\* the consecutive successful runs of p, and the input as it stood before
\* the first failing run.
ManyTotal ==
    (op = "many" /\ FailsByParserError(parser.f.cl[1]))
        => Outcome(result) = ManyReference(parser.f.cl[1], context, <<>>)

\* C6: a do-block of steps has on every input the outcome of the nested
\* binds of its steps, also when it is run again as the second branch of an
\* alternation whose first branch ran it and failed.
DoIsNestedBind ==
    /\ op = "do" => Outcome(result) = Outcome(Parse(NestedBind(parser.f.cl[1], <<>>), context))
    /\ op = "do again" =>
          Outcome(result) =
              Outcome(Parse(Or(Bind(NestedBind(parser.other.f.cl[1], <<>>), FnRaise),
                               NestedBind(parser.other.f.cl[1], <<>>)), context))

\* A block of three steps whose later steps depend on the first value,
\* succeeding in the second branch after the first ran it and failed.
DoIsNestedBindWitness ==
    /\ op = "do again"
    /\ parser.other = DoBlock(<<StepFixed(Pop), StepFirst, StepLast>>)
    /\ context = <<"a", "a", "a">>
    /\ result.ok
    /\ result.val = List(<<Chr("a"), Chr("a"), Chr("a")>>)
    /\ result.rest = <<>>

\* C7: ret(v).bind(f) has the outcome of f(v), and p.bind(ret) has the
\* outcome of p.
IdentityLaws ==
    /\ (op = "bind" /\ parser.self.t = "ret") =>
          Outcome(result) = Outcome(Parse(Apply(parser.f, parser.self.v), context))
    /\ (op = "bind" /\ parser.f = FnRet) =>
          Outcome(result) = Outcome(Parse(parser.self, context))

\* p.bind(ret) for a p that consumes, and ret(v).bind(f) for an f(v) that
\* consumes.
IdentityLawsWitness ==
    \/ /\ op = "bind"
       /\ parser = Bind(Pop, FnRet)
       /\ Len(context) = MaxCtx
       /\ result.ok
       /\ result.rest = Tail(context)
    \/ /\ op = "bind"
       /\ parser = Bind(Ret(Chr("a")), FnChar)
       /\ result.ok
       /\ result.rest = Tail(context)

\* The steps of a do-block before step k + 1.
Upto(steps, k) == SubSeq(steps, 1, k)

\* C8: when p fails, p.bind(f) fails with p's failure and f is not called;
\* when a step of a do-block fails, the block fails with the failure of
\* the block cut after that step, and nothing is evaluated that the cut
\* block does not evaluate: no later step, no continuation.
EarlyFailure ==
    /\ (op = "bind" /\ ~Parse(parser.self, context).ok) =>
          result = Parse(parser.self, context)
    /\ op = "do" =>
          \A k \in 1..Len(parser.f.cl[1]) :
              ~Parse(DoBlock(Upto(parser.f.cl[1], k)), context).ok =>
                  result = Parse(DoBlock(Upto(parser.f.cl[1], k)), context)

\* The second of three steps fails after the first consumed an element.
EarlyFailureWitness ==
    /\ op = "do"
    /\ parser = DoBlock(<<StepFixed(Pop), StepFixed(char(Chr("a"))), StepFixed(Pop)>>)
    /\ context = <<"a", "1", "a">>
    /\ ~result.ok
    /\ result.err = "ParserError"
    /\ result.log = Parse(DoBlock(<<StepFixed(Pop), StepFixed(char(Chr("a")))>>), context).log

\* The second branch of the alternation was run right after the first.
OtherTried ==
    /\ Len(result.log) > Len(Parse(parser.self, context).log)
    /\ result.log[Len(Parse(parser.self, context).log) + 1] = <<"other">>

\* C9 as stated: whenever the first parser of an alternation fails,
\* whatever the exception, the second parser is run on the original input.
OrRecoversAlways ==
    (op = "or" /\ ~Parse(parser.self, context).ok) => OtherTried

\* C9: when the first parser of an alternation fails with ParserError the
\* second parser is run on the original input; any other exception of the
\* first, as the SyntaxError of digits, leaves the alternation and the
\* second parser is not run.
OrRecoversParserError ==
    (op = "or" /\ ~Parse(parser.self, context).ok) =>
        IF Parse(parser.self, context).err = "ParserError"
        THEN OtherTried
        ELSE ~OtherTried /\ result = Parse(parser.self, context)

\* digits raises SyntaxError before a second parser that would succeed.
OrRecoversWitness ==
    /\ op = "or"
    /\ parser = Or(digits, Pop)
    /\ context = <<".", ".">>
    /\ result.err = "SyntaxError"
    /\ Parse(parser.other, context).ok

(***************************************************************************)
(* The lines main reads.  A well formed expression is a sequence of        *)
(* tokens built by the grammar                                             *)
(*     expr ::= term | term addop expr                                     *)
(*     term ::= factor | factor mulop term                                 *)
(*     factor ::= number | ( expr )                                        *)
(* and carries its reference value v: * and / bind tighter than + and -,   *)
(* a chain groups to the right; v is Undefined where the reference         *)
(* evaluation divides by zero.                                             *)
(***************************************************************************)
\* The most tokens of a generated expression.
MaxTokens == 7
\* The most tokens of an expression that is written with whitespace, and
\* the longest run of whitespace.
MaxSpaced == 3
MaxGap == 2

Undefined == <<"undefined">>
Literals == {"2", "3"}
AddOps == {"+", "-"}
MulOps == {"*", "/"}

RefApply(c, a, b) ==
    IF a = Undefined \/ b = Undefined \/ (c = "/" /\ b[2] = 0) THEN Undefined
    ELSE CASE c = "+" -> Norm(a[2] * b[3] + b[2] * a[3], a[3] * b[3])
           [] c = "-" -> Norm(a[2] * b[3] - b[2] * a[3], a[3] * b[3])
           [] c = "*" -> Norm(a[2] * b[2], a[3] * b[3])
           [] c = "/" -> Norm(a[2] * b[3], a[3] * b[2])

Literal(c) == [toks |-> <<c>>, v |-> Num(DigitValue(c), 1)]
Binary(l, c, r) == [toks |-> l.toks \o <<c>> \o r.toks, v |-> RefApply(c, l.v, r.v)]
Parenthesised(e) == [toks |-> <<"(">> \o e.toks \o <<")">>, v |-> e.v]
\* The factors, terms and expressions of exactly n tokens.
RECURSIVE FactorsOf(_), TermsOf(_), ExprsOf(_)
FactorsOf(n) ==
    IF n = 1 THEN {Literal(c) : c \in Literals}
    ELSE IF n < 3 THEN {}
    ELSE {Parenthesised(e) : e \in ExprsOf(n - 2)}
TermsOf(n) ==
    FactorsOf(n) \cup
        UNION {{Binary(f, c, t) : f \in FactorsOf(i), c \in MulOps, t \in TermsOf(n - 1 - i)} :
                  i \in 1..(n - 2)}
ExprsOf(n) ==
    TermsOf(n) \cup
        UNION {{Binary(t, c, e) : t \in TermsOf(i), c \in AddOps, e \in ExprsOf(n - 1 - i)} :
                  i \in 1..(n - 2)}

Generated == UNION {ExprsOf(n) : n \in 1..MaxTokens}
WellFormed == {e \in Generated : e.v # Undefined}

\* The scenarios of the grammar, with numbers of several digits.
Examples ==
    {[toks |-> <<"1", "+", "2">>, v |-> Num(3, 1)],
     [toks |-> <<"2", "*", "3", "+", "4">>, v |-> Num(10, 1)],
     [toks |-> <<"2", "+", "3", "*", "4">>, v |-> Num(14, 1)],
     [toks |-> <<"(", "2", "+", "3", ")", "*", "4">>, v |-> Num(20, 1)],
     [toks |-> <<"1", "0", "/", "2", "/", "5">>, v |-> Num(25, 1)]}

\* An expression written with lead whitespace before it, gap after each
\* token but the last and trail after the last.
Blank(n) == [i \in 1..n |-> " "]
RECURSIVE Spread(_, _, _)
Spread(toks, gap, trail) ==
    IF Len(toks) = 1 THEN toks \o Blank(trail)
    ELSE <<Head(toks)>> \o Blank(gap) \o Spread(Tail(toks), gap, trail)
Spaced(e, lead, gap, trail) ==
    [toks |-> Blank(lead) \o Spread(e.toks, gap, trail), v |-> e.v, lead |-> lead]
SpacedOut ==
    {Spaced(e, lead, gap, trail) :
        e \in {x \in WellFormed : Len(x.toks) <= MaxSpaced} \cup {[toks |-> <<"1", "+", "2">>, v |-> Num(3, 1)]},
        lead \in 0..MaxGap, gap \in 0..MaxGap, trail \in 0..MaxGap}

\* An operand and a binary operator with no right operand; rest is the
\* line from the operator on.
Dangling ==
    {[toks |-> e.toks \o Blank(gap) \o <<c>> \o Blank(trail), v |-> e.v,
      rest |-> <<c>> \o Blank(trail)] :
        e \in {x \in WellFormed : Len(x.toks) <= MaxSpaced} \cup {Literal("1")},
        c \in AddOps \cup MulOps, gap \in 0..1, trail \in 0..1}

LineChars == {"1", ".", "+", "*", "(", ")", " "}
Lines ==
    StringsUpTo(LineChars, MaxLine)
      \cup {e.toks : e \in Generated \cup Examples \cup SpacedOut \cup Dangling}

(***************************************************************************)
(* main: read a line, stop at the empty line, else parse it with expr and  *)
(* print the value, the extra input or the exception.                      *)
(***************************************************************************)
\* line = input("> "), and the break at "".
ReadLine ==
    /\ pc = "input"
    /\ \E line \in Lines :
          /\ context' = line
          /\ pc' = IF line = <<>> THEN "done" ELSE "parse"
    /\ UNCHANGED <<op, parser, result, output>>

\* What main prints for a result of expr.parse(line).
Printed(r) ==
    IF ~r.ok THEN <<"exception:", r.msg>>
    ELSE IF r.rest # <<>> THEN <<"Extra input at: ", r.rest>>
    ELSE <<r.val>>

\* The body of the try statement and its handler.
Evaluate ==
    /\ pc = "parse"
    /\ result' = Parse(expr, context)
    /\ output' = Printed(result')
    /\ pc' = "printed"
    /\ UNCHANGED <<op, parser, context>>

\* while True: the next turn of the loop, where line, value and ctx of the
\* last turn are dead.
Loop ==
    /\ pc = "printed"
    /\ pc' = "input"
    /\ context' = <<>>
    /\ result' = NoResult
    /\ output' = <<>>
    /\ UNCHANGED <<op, parser>>

NextCalc == ReadLine \/ Evaluate \/ Loop
SpecCalc == Init /\ [][NextCalc]_vars

(***************************************************************************)
(* Properties of the grammar.                                              *)
(***************************************************************************)
\* C2: on every well formed expression without whitespace whose reference
\* evaluation is defined, expr succeeds with remaining input "" and the
\* reference value: * and / bind tighter than + and -, parentheses group,
\* a chain of operators of one level groups to the right.
ValueOfWellFormed ==
    pc = "printed" =>
        \A e \in WellFormed \cup Examples :
            context = e.toks => (result.ok /\ result.rest = <<>> /\ result.val = e.v)

\* 2-3-2 is 2-(3-2), and (2-3)/2 groups by its parentheses.
ValueOfWellFormedWitness ==
    /\ pc = "printed"
    /\ \/ context = <<"2", "-", "3", "-", "2">> /\ result.val = Num(1, 1)
       \/ context = <<"(", "2", "-", "3", ")", "/", "2">> /\ result.val = Num(-1, 2)
    /\ result.rest = <<>>

\* C3 as stated: on an operand followed by a binary operator with no right
\* operand, as "1+", expr raises and produces no value.
DanglingOperatorFails ==
    pc = "printed" => \A e \in Dangling : context = e.toks => ~result.ok

\* C3: on an operand followed by a binary operator with no right operand,
\* as "1+", expr succeeds with the operand's value and the remaining input
\* from the operator on, which main reports as extra input.
DanglingOperatorLeft ==
    pc = "printed" =>
        \A e \in Dangling :
            context = e.toks =>
                /\ result.ok
                /\ result.val = e.v
                /\ result.rest = e.rest
                /\ output = <<"Extra input at: ", e.rest>>

DanglingOperatorWitness ==
    /\ pc = "printed"
    /\ context = <<"1", "+">>
    /\ result.ok
    /\ result.val = Num(1, 1)
    /\ result.rest = <<"+">>

\* C4 as stated: on a well formed expression with whitespace before,
\* between and after its tokens, as "  1 + 2  ", expr succeeds with the
\* expression's value and remaining input "".
WhitespaceAllSkipped ==
    pc = "printed" =>
        \A e \in SpacedOut :
            context = e.toks => (result.ok /\ result.rest = <<>> /\ result.val = e.v)

\* C4: on a well formed expression with whitespace between and after its
\* tokens and none before the first, expr succeeds with the expression's
\* value and remaining input ""; with whitespace before the first token,
\* as "  1 + 2  ", expr raises ParserError on the first blank.
WhitespaceRightSkipped ==
    pc = "printed" =>
        \A e \in SpacedOut :
            context = e.toks =>
                IF e.lead = 0
                THEN result.ok /\ result.rest = <<>> /\ result.val = e.v
                ELSE /\ ~result.ok
                     /\ result.err = "ParserError"
                     /\ result.msg = <<"unexpected", Chr(" ")>>

WhitespaceWitness ==
    \/ /\ pc = "printed"
       /\ context = <<" ", " ", "1", " ", "+", " ", "2", " ", " ">>
       /\ ~result.ok
    \/ /\ pc = "printed"
       /\ context = <<"1", " ", " ", "+", " ", " ", "2", " ", " ">>
       /\ result.ok
       /\ result.val = Num(3, 1)

\* C10: on every line expr returns a value with the remaining input or
\* raises an error of parsing, of the literal or of the operator; no
\* parser of the grammar is entered again at the input position it is
\* already running at.
GrammarTerminates ==
    pc = "printed" =>
        \/ result.ok /\ Len(result.rest) <= Len(context)
        \/ ~result.ok /\ result.err \in {"ParserError", "SyntaxError", "ZeroDivisionError", "TypeError"}

\* expr is entered inside expr, at a later position, three times.
GrammarTerminatesWitness ==
    /\ pc = "printed"
    /\ context = <<"(", "(", "(", "2", ")", ")", ")">>
    /\ result.ok
    /\ result.val = Num(2, 1)

====
